---- MODULE Spec2Model ----
(***************************************************************************)
(* Word-frequency MapReduce of task_2.py: map_reduce tokenizes a text,     *)
(* maps every word to (word, 1) on a ThreadPoolExecutor, groups the pairs  *)
(* by word (shuffle_function), sums every group on a second                *)
(* ThreadPoolExecutor (reduce_function) and returns dict(reduced_values).  *)
(*                                                                         *)
(* A text is a sequence of one-character strings, a word is a non-empty    *)
(* sequence of characters.  Each call of map_reduce is a run r with its    *)
(* own frame (text, words, mapped_values, ...).  The coordinating thread   *)
(* of a run and the worker threads of its pools are separate actions.      *)
(***************************************************************************)
EXTENDS Integers, Sequences, FiniteSets, TLC

(* ------------------------------ bounds --------------------------------- *)

\* Longest text handed to a sequential call.
MaxTextLen == 5

\* Longest text handed to each of two concurrent calls.
MaxConcTextLen == 3

\* Worker threads of one ThreadPoolExecutor.  ThreadPoolExecutor() takes
\* min(32, cpu_count + 4); the model scales it down with the texts so that
\* work items do queue behind busy workers.
MaxWorkers == 2

(* --------------------------- input alphabets --------------------------- *)

\* Characters of string.punctuation that occur in the modelled texts.
Punctuation == {","}

\* Characters str.split() treats as separators that occur in the texts.
Whitespace == {" "}

Letters == {"a", "b"}

Chars == Letters \cup Punctuation \cup Whitespace

ConcChars == {"a", " "}

SeqsUpTo(S, n) == UNION {[1..k -> S] : k \in 0..n}

Texts == SeqsUpTo(Chars, MaxTextLen)

ConcTexts == SeqsUpTo(ConcChars, MaxConcTextLen)

\* Optional[List[str]]: None, or a list of words.
NoneValue == [is_none |-> TRUE, items |-> <<>>]

ListValue(l) == [is_none |-> FALSE, items |-> l]

\* The search_words handed to a call: None, the empty list, lists of words.
Vocabularies ==
    {NoneValue} \cup
    {ListValue(l) : l \in {<<>>, <<<<"a">>>>, <<<<"b">>>>, <<<<"a">>, <<"b">>>>}}

ConcVocabularies == {NoneValue, ListValue(<<<<"a">>>>)}

\* Python truthiness of `if search_words:`: None and the empty list are falsy.
Truthy(sw) == ~sw.is_none /\ Len(sw.items) > 0

Range(s) == {s[i] : i \in DOMAIN s}

(* --------------------------- pure functions ---------------------------- *)

\* text.translate(str.maketrans("", "", string.punctuation))
remove_punctuation(t) == SelectSeq(t, LAMBDA c : c \notin Punctuation)

\* str.split() without arguments: maximal runs of non-whitespace characters.
RECURSIVE SplitFrom(_, _, _, _)
SplitFrom(t, i, cur, acc) ==
    IF i > Len(t)
    THEN IF cur = <<>> THEN acc ELSE Append(acc, cur)
    ELSE IF t[i] \in Whitespace
         THEN SplitFrom(t, i + 1, <<>>, IF cur = <<>> THEN acc ELSE Append(acc, cur))
         ELSE SplitFrom(t, i + 1, Append(cur, t[i]), acc)

\* text.split(" "): every single separator splits, empty strings are kept.
RECURSIVE SplitSepFrom(_, _, _, _)
SplitSepFrom(t, i, cur, acc) ==
    IF i > Len(t)
    THEN Append(acc, cur)
    ELSE IF t[i] \in Whitespace
         THEN SplitSepFrom(t, i + 1, <<>>, Append(acc, cur))
         ELSE SplitSepFrom(t, i + 1, Append(cur, t[i]), acc)

split_on_separator(t) == SplitSepFrom(t, 1, <<>>, <<>>)

split(t) == SplitFrom(t, 1, <<>>, <<>>)

\* if search_words: words = [word for word in words if word in search_words]
FilterWords(ws, sw) ==
    IF Truthy(sw) THEN SelectSeq(ws, LAMBDA w : w \in Range(sw.items)) ELSE ws

\* Lines 109-113 of map_reduce: the words that enter the mapper.
Tokenize(t, sw) == FilterWords(split(remove_punctuation(t)), sw)

\* Line 110 alone: the words of the text before the filter.
Tokens(t) == split(remove_punctuation(t))

\* map_function returning (word[0], 1): the first character as the key.
map_function_first_char(word) == <<<<word[1]>>, 1>>

map_function(word) == <<word, 1>>

RECURSIVE SumSeq(_)
SumSeq(s) == IF s = <<>> THEN 0 ELSE s[1] + SumSeq(Tail(s))

\* reduce_function returning (key, values[0]) instead of the sum.
reduce_function_first(key_values) == <<key_values[1], key_values[2][1]>>

reduce_function(key_values) == <<key_values[1], SumSeq(key_values[2])>>

\* Grouping of adjacent equal keys only (itertools.groupby on unsorted pairs):
\* a key seen again after another key opens a new group.
DictAppendAdjacent(d, pair) ==
    IF d # <<>> /\ d[Len(d)][1] = pair[1]
    THEN [d EXCEPT ![Len(d)] = <<d[Len(d)][1], Append(d[Len(d)][2], pair[2])>>]
    ELSE Append(d, <<pair[1], <<pair[2]>>>>)

\* shuffled[key] = [value]: the list of a key is overwritten, not extended.
DictAppendOverwrite(d, pair) ==
    IF \E i \in DOMAIN d : d[i][1] = pair[1]
    THEN [i \in DOMAIN d |-> IF d[i][1] = pair[1] THEN <<d[i][1], <<pair[2]>>>> ELSE d[i]]
    ELSE Append(d, <<pair[1], <<pair[2]>>>>)

\* shuffled[key].append(value) on a defaultdict(list); the dict is the
\* sequence of its (key, values) items in insertion order.
DictAppend(d, pair) ==
    IF \E i \in DOMAIN d : d[i][1] = pair[1]
    THEN [i \in DOMAIN d |->
            IF d[i][1] = pair[1] THEN <<d[i][1], Append(d[i][2], pair[2])>> ELSE d[i]]
    ELSE Append(d, <<pair[1], <<pair[2]>>>>)

RECURSIVE ShuffleFrom(_, _, _)
ShuffleFrom(mapped, i, d) ==
    IF i > Len(mapped) THEN d ELSE ShuffleFrom(mapped, i + 1, DictAppend(d, mapped[i]))

shuffle_function(mapped) == ShuffleFrom(mapped, 1, <<>>)

\* executor.map(map_function, words), in submission order.
MapAll(ws) == [i \in DOMAIN ws |-> map_function(ws[i])]

\* executor.map(reduce_function, shuffled_values), in submission order.
ReduceAll(entries) == [i \in DOMAIN entries |-> reduce_function(entries[i])]

\* dict(pairs): a later pair with the same key overrides an earlier one.
DictOf(pairs) ==
    [k \in {pairs[i][1] : i \in DOMAIN pairs} |->
        LET last == CHOOSE i \in DOMAIN pairs :
                        /\ pairs[i][1] = k
                        /\ \A j \in DOMAIN pairs : pairs[j][1] = k => j <= i
        IN pairs[last][2]]

EmptyDict == DictOf(<<>>)

(* ------------------------------- state --------------------------------- *)

Runs == {1, 2}

\* The run of a thread that calls map_reduce again and again.
MainRun == CHOOSE r \in Runs : \A q \in Runs : r <= q

VARIABLES
    pc,              \* where the coordinating thread of each run stands
    text,            \* argument text, as the caller passed it
    search_words,    \* argument search_words
    words,           \* local words (after line 113)
    map_futures,     \* futures of the mapper pool, in submission order
    map_next,        \* next future list(executor.map(...)) waits for
    mapped_values,   \* results list() has collected so far
    shuffled,        \* the defaultdict of shuffle_function
    shuf_i,          \* pairs the for loop of shuffle_function has consumed
    reduce_futures,  \* futures of the reducer pool, in submission order
    reduce_next,     \* next future list(executor.map(...)) waits for
    reduced_values,  \* results list() has collected so far
    pool,            \* state of the two executors of the run
    result,          \* the dict map_reduce returned
    error,           \* the exception map_reduce raised
    previous,        \* outcome of the call before this one in the same thread
    main_pc,         \* where the script's main block stands
    response,        \* how requests.get and raise_for_status ended
    some_text,       \* what get_text returned
    console,         \* what the script printed
    chart,           \* the bars handed to plt.barh: (word, width) from the top
    sort_pc,         \* where process_files stands
    files,           \* the set read_folder returned
    tasks,           \* state of the copy_file task of each file
    target,          \* the target directory: the content found at each file path
    dirs,            \* the extension directories of the target directory
    log              \* the records the logger has received

\* The frames of the map_reduce calls.
mrVars == <<pc, text, search_words, words, map_futures, map_next, mapped_values,
            shuffled, shuf_i, reduce_futures, reduce_next, reduced_values, pool,
            result, error, previous>>

\* The state of the script's main block.
appVars == <<main_pc, response, some_text, console, chart>>

\* The state of the file sorter.
sortVars == <<sort_pc, files, tasks, target, dirs, log>>

\* What a step of a map_reduce call leaves alone.
otherVars == <<appVars, sortVars>>

vars == <<mrVars, otherVars>>

NoResult == <<<<>>, 0>>

NoError == <<"none", 0>>

NewFuture == [state |-> "pending", result |-> NoResult]

\* No call has returned a table in this thread yet.
NoPrevious == [returned |-> FALSE, table |-> EmptyDict]

\* Optional[str]: None.
NoText == [is_none |-> TRUE, value |-> <<>>]

\* Optional[str]: a text.
TextValue(t) == [is_none |-> FALSE, value |-> t]

\* plt.barh has not been called.
NoChart == [shown |-> FALSE, bars |-> <<>>]

\* Most files read_folder finds in one run.
MaxFiles == 3

\* Path(parent, stem, suffix): the files the source directory can hold. Two
\* have the same name in different subdirectories, one an upper-case suffix,
\* one no suffix.
SourceFiles ==
    { [parent |-> "d1", stem |-> "x", suffix |-> <<".", "t">>],
      [parent |-> "d2", stem |-> "x", suffix |-> <<".", "t">>],
      [parent |-> "d1", stem |-> "y", suffix |-> <<".", "T">>],
      [parent |-> "d1", stem |-> "z", suffix |-> <<>>] }

\* str.lower() on one character.
LowerChar(c) == IF c = "T" THEN "t" ELSE c

\* str.lower()
Lower(s) == [i \in DOMAIN s |-> LowerChar(s[i])]

\* file.suffix[1:].lower() if file.suffix else 'no_extension'; a string is
\* a sequence of characters, and the literal stands as one symbol.
extension(file) == IF file.suffix # <<>> THEN Lower(Tail(file.suffix)) ELSE <<"no_extension">>

\* file.name
NameOf(file) == <<file.stem, file.suffix>>

\* target_file = extension_dir / file.name, relative to target_path
target_file(file) == <<extension(file), NameOf(file)>>

\* The paths copy_file can write.
TargetFiles == {target_file(f) : f \in SourceFiles}

\* No file: nothing at a path, or a log record that is about no file.
Absent == [parent |-> "", stem |-> "", suffix |-> <<>>]

Init ==
    /\ pc = [r \in Runs |-> "idle"]
    /\ text = [r \in Runs |-> <<>>]
    /\ search_words = [r \in Runs |-> NoneValue]
    /\ words = [r \in Runs |-> <<>>]
    /\ map_futures = [r \in Runs |-> <<>>]
    /\ map_next = [r \in Runs |-> 1]
    /\ mapped_values = [r \in Runs |-> <<>>]
    /\ shuffled = [r \in Runs |-> <<>>]
    /\ shuf_i = [r \in Runs |-> 0]
    /\ reduce_futures = [r \in Runs |-> <<>>]
    /\ reduce_next = [r \in Runs |-> 1]
    /\ reduced_values = [r \in Runs |-> <<>>]
    /\ pool = [r \in Runs |-> [map |-> "none", reduce |-> "none"]]
    /\ result = [r \in Runs |-> EmptyDict]
    /\ error = [r \in Runs |-> NoError]
    /\ previous = [r \in Runs |-> NoPrevious]
    /\ main_pc = "start"
    /\ response = "none"
    /\ some_text = NoText
    /\ console = <<>>
    /\ chart = NoChart
    /\ sort_pc = "start"
    /\ files = {}
    /\ tasks = [f \in SourceFiles |-> "none"]
    /\ target = [p \in TargetFiles |-> Absent]
    /\ dirs = {}
    /\ log = {}

(* ---------------------------- the executor ----------------------------- *)

\* A worker thread that ends after its first work item and is not replaced.
RunningNeverReleased(fs) == {i \in DOMAIN fs : fs[i].state \in {"running", "done", "failed"}}

\* The work items worker threads of the pool are busy with.
Running(fs) == {i \in DOMAIN fs : fs[i].state = "running"}

\* A worker thread takes the next work item of the FIFO queue.
CanRun(fs, i) ==
    /\ fs[i].state = "pending"
    /\ \A j \in 1..(i - 1) : fs[j].state # "pending"
    /\ Cardinality(Running(fs)) < MaxWorkers

\* Future.result() returns or raises once the future has finished.
FutureResolved(f) == f.state \in {"done", "failed"}

\* The result iterator of Executor.map cancels what has not started when it
\* is left by an exception.
CancelPending(fs) ==
    [i \in DOMAIN fs |->
        IF fs[i].state = "pending" THEN [fs[i] EXCEPT !.state = "cancelled"] ELSE fs[i]]

\* shutdown(wait=False): the with block is left while workers still run.
PoolJoinedNoWait(fs) == TRUE

\* Executor.__exit__ is shutdown(wait=True): it returns when no worker runs
\* and no work item is queued.
PoolJoined(fs) == \A i \in DOMAIN fs : fs[i].state \notin {"pending", "running"}

(* ------------------------------ map_reduce ----------------------------- *)

\* mapped_values kept in a module-level list that every call extends.
EnterStale(r, t, sw) ==
    /\ text' = [text EXCEPT ![r] = t]
    /\ search_words' = [search_words EXCEPT ![r] = sw]
    /\ words' = [words EXCEPT ![r] = Tokenize(t, sw)]
    /\ map_futures' = [map_futures EXCEPT ![r] = [i \in 1..Len(Tokenize(t, sw)) |-> NewFuture]]
    /\ map_next' = [map_next EXCEPT ![r] = 1]
    /\ shuffled' = [shuffled EXCEPT ![r] = <<>>]
    /\ shuf_i' = [shuf_i EXCEPT ![r] = 0]
    /\ reduce_futures' = [reduce_futures EXCEPT ![r] = <<>>]
    /\ reduce_next' = [reduce_next EXCEPT ![r] = 1]
    /\ reduced_values' = [reduced_values EXCEPT ![r] = <<>>]
    /\ pool' = [pool EXCEPT ![r] = [map |-> "open", reduce |-> "none"]]
    /\ result' = [result EXCEPT ![r] = EmptyDict]
    /\ error' = [error EXCEPT ![r] = NoError]
    /\ pc' = [pc EXCEPT ![r] = "map"]
    /\ UNCHANGED mapped_values
    /\ UNCHANGED otherVars

\* ThreadPoolExecutor(max_workers=len(words)): the constructor raises
\* ValueError when there is no word.
EnterSizedPool(r, t, sw) ==
    /\ text' = [text EXCEPT ![r] = t]
    /\ search_words' = [search_words EXCEPT ![r] = sw]
    /\ words' = [words EXCEPT ![r] = Tokenize(t, sw)]
    /\ map_futures' = [map_futures EXCEPT ![r] = [i \in 1..Len(Tokenize(t, sw)) |-> NewFuture]]
    /\ map_next' = [map_next EXCEPT ![r] = 1]
    /\ mapped_values' = [mapped_values EXCEPT ![r] = <<>>]
    /\ shuffled' = [shuffled EXCEPT ![r] = <<>>]
    /\ shuf_i' = [shuf_i EXCEPT ![r] = 0]
    /\ reduce_futures' = [reduce_futures EXCEPT ![r] = <<>>]
    /\ reduce_next' = [reduce_next EXCEPT ![r] = 1]
    /\ reduced_values' = [reduced_values EXCEPT ![r] = <<>>]
    /\ result' = [result EXCEPT ![r] = EmptyDict]
    /\ IF Tokenize(t, sw) = <<>>
       THEN /\ pool' = [pool EXCEPT ![r] = [map |-> "none", reduce |-> "none"]]
            /\ error' = [error EXCEPT ![r] = <<"pool", 0>>]
            /\ pc' = [pc EXCEPT ![r] = "raised"]
       ELSE /\ pool' = [pool EXCEPT ![r] = [map |-> "open", reduce |-> "none"]]
            /\ error' = [error EXCEPT ![r] = NoError]
            /\ pc' = [pc EXCEPT ![r] = "map"]
    /\ UNCHANGED otherVars

\* Lines 108-117 up to the submission of the mapper's work items, in a new
\* frame.
Enter(r, t, sw) ==
    /\ text' = [text EXCEPT ![r] = t]
    /\ search_words' = [search_words EXCEPT ![r] = sw]
    /\ words' = [words EXCEPT ![r] = Tokenize(t, sw)]
    /\ map_futures' = [map_futures EXCEPT ![r] = [i \in 1..Len(Tokenize(t, sw)) |-> NewFuture]]
    /\ map_next' = [map_next EXCEPT ![r] = 1]
    /\ mapped_values' = [mapped_values EXCEPT ![r] = <<>>]
    /\ shuffled' = [shuffled EXCEPT ![r] = <<>>]
    /\ shuf_i' = [shuf_i EXCEPT ![r] = 0]
    /\ reduce_futures' = [reduce_futures EXCEPT ![r] = <<>>]
    /\ reduce_next' = [reduce_next EXCEPT ![r] = 1]
    /\ reduced_values' = [reduced_values EXCEPT ![r] = <<>>]
    /\ pool' = [pool EXCEPT ![r] = [map |-> "open", reduce |-> "none"]]
    /\ result' = [result EXCEPT ![r] = EmptyDict]
    /\ error' = [error EXCEPT ![r] = NoError]
    /\ pc' = [pc EXCEPT ![r] = "map"]
    /\ UNCHANGED otherVars

\* A first call of map_reduce(t, sw).
Call(r, t, sw) ==
    /\ pc[r] = "idle"
    /\ Enter(r, t, sw)
    /\ UNCHANGED previous

\* The caller calls map_reduce again with the same arguments.
Recall(r) ==
    /\ pc[r] \in {"returned", "raised"}
    /\ Enter(r, text[r], search_words[r])
    /\ previous' = [previous EXCEPT ![r] =
                       IF pc[r] = "returned"
                       THEN [returned |-> TRUE, table |-> result[r]]
                       ELSE @]

\* A worker of the mapper pool starts work item i.
MapWorkerRun(r, i) ==
    /\ pool[r].map = "open"
    /\ i \in DOMAIN map_futures[r]
    /\ CanRun(map_futures[r], i)
    /\ map_futures' = [map_futures EXCEPT ![r][i].state = "running"]
    /\ UNCHANGED <<pc, text, search_words, words, map_next, mapped_values, shuffled,
                   shuf_i, reduce_futures, reduce_next, reduced_values, pool, result,
                   error, previous>>
    /\ UNCHANGED otherVars

\* The worker finishes work item i: map_function(words[i]) is stored in the
\* future, or the error the execution surfaced.
MapWorkerFinish(r, i, ok) ==
    /\ i \in DOMAIN map_futures[r]
    /\ map_futures[r][i].state = "running"
    /\ map_futures' = [map_futures EXCEPT ![r][i] =
                          IF ok THEN [state |-> "done", result |-> map_function(words[r][i])]
                                ELSE [state |-> "failed", result |-> NoResult]]
    /\ UNCHANGED <<pc, text, search_words, words, map_next, mapped_values, shuffled,
                   shuf_i, reduce_futures, reduce_next, reduced_values, pool, result,
                   error, previous>>
    /\ UNCHANGED otherVars

\* Results taken with result(timeout=0) and a timeout passed over: the pair
\* of a work item that has not finished yet is dropped.
MapCollectDropUnfinished(r) ==
    /\ pc[r] = "map"
    /\ error[r] = NoError
    /\ map_next[r] \in DOMAIN map_futures[r]
    /\ map_futures[r][map_next[r]].state # "failed"
    /\ mapped_values' = [mapped_values EXCEPT ![r] =
                            IF map_futures[r][map_next[r]].state = "done"
                            THEN Append(@, map_futures[r][map_next[r]].result)
                            ELSE @]
    /\ map_next' = [map_next EXCEPT ![r] = @ + 1]
    /\ UNCHANGED <<pc, text, search_words, words, shuffled, shuf_i, reduce_futures,
                   reduce_next, reduced_values, pool, result, previous, map_futures,
                   error>>
    /\ UNCHANGED otherVars

\* list(executor.map(map_function, words)) takes the next result, in
\* submission order; a failed future raises out of the iterator.
MapCollect(r) ==
    /\ pc[r] = "map"
    /\ error[r] = NoError
    /\ map_next[r] \in DOMAIN map_futures[r]
    /\ FutureResolved(map_futures[r][map_next[r]])
    /\ IF map_futures[r][map_next[r]].state = "done"
       THEN /\ mapped_values' = [mapped_values EXCEPT ![r] =
                                    Append(@, map_futures[r][map_next[r]].result)]
            /\ map_next' = [map_next EXCEPT ![r] = @ + 1]
            /\ UNCHANGED <<map_futures, error>>
       ELSE /\ error' = [error EXCEPT ![r] = <<"map", map_next[r]>>]
            /\ map_futures' = [map_futures EXCEPT ![r] = CancelPending(@)]
            /\ UNCHANGED <<mapped_values, map_next>>
    /\ UNCHANGED <<pc, text, search_words, words, shuffled, shuf_i, reduce_futures,
                   reduce_next, reduced_values, pool, result, previous>>
    /\ UNCHANGED otherVars

\* The mapper's results taken lazily and the pool not joined: the shuffle
\* starts on what has been collected so far.
MapExitNoBarrier(r) ==
    /\ pc[r] = "map"
    /\ pool' = [pool EXCEPT ![r].map = "shutdown"]
    /\ pc' = [pc EXCEPT ![r] = IF error[r] # NoError THEN "raised" ELSE "shuffle"]
    /\ shuffled' = [shuffled EXCEPT ![r] = <<>>]
    /\ shuf_i' = [shuf_i EXCEPT ![r] = 0]
    /\ UNCHANGED <<text, search_words, words, map_futures, map_next, mapped_values,
                   reduce_futures, reduce_next, reduced_values, result, error, previous>>
    /\ UNCHANGED otherVars

\* End of the first with block: the pool is shut down and joined; then the
\* exception leaves map_reduce, or shuffle_function is entered (line 75).
MapExit(r) ==
    /\ pc[r] = "map"
    /\ error[r] # NoError \/ map_next[r] > Len(map_futures[r])
    /\ PoolJoined(map_futures[r])
    /\ pool' = [pool EXCEPT ![r].map = "shutdown"]
    /\ pc' = [pc EXCEPT ![r] = IF error[r] # NoError THEN "raised" ELSE "shuffle"]
    /\ shuffled' = [shuffled EXCEPT ![r] = <<>>]
    /\ shuf_i' = [shuf_i EXCEPT ![r] = 0]
    /\ UNCHANGED <<text, search_words, words, map_futures, map_next, mapped_values,
                   reduce_futures, reduce_next, reduced_values, result, error, previous>>
    /\ UNCHANGED otherVars

\* shuffled as one module-level dict: the iteration appends to the dict
\* every call that is shuffling sees.
ShuffleStepShared(r) ==
    /\ pc[r] = "shuffle"
    /\ shuf_i[r] < Len(mapped_values[r])
    /\ shuffled' = [q \in Runs |->
                       IF pc[q] = "shuffle"
                       THEN DictAppend(shuffled[q], mapped_values[r][shuf_i[r] + 1])
                       ELSE shuffled[q]]
    /\ shuf_i' = [shuf_i EXCEPT ![r] = @ + 1]
    /\ UNCHANGED <<pc, text, search_words, words, map_futures, map_next, mapped_values,
                   reduce_futures, reduce_next, reduced_values, pool, result, error,
                   previous>>
    /\ UNCHANGED otherVars

\* One iteration of the for loop of shuffle_function (lines 76-77).
ShuffleStep(r) ==
    /\ pc[r] = "shuffle"
    /\ shuf_i[r] < Len(mapped_values[r])
    /\ shuffled' = [shuffled EXCEPT ![r] = DictAppend(@, mapped_values[r][shuf_i[r] + 1])]
    /\ shuf_i' = [shuf_i EXCEPT ![r] = @ + 1]
    /\ UNCHANGED <<pc, text, search_words, words, map_futures, map_next, mapped_values,
                   reduce_futures, reduce_next, reduced_values, pool, result, error,
                   previous>>
    /\ UNCHANGED otherVars

\* shuffle_function returns shuffled.items(); the second executor is created
\* and one work item per item is submitted (lines 78, 120-124).
ReduceSubmit(r) ==
    /\ pc[r] = "shuffle"
    /\ shuf_i[r] = Len(mapped_values[r])
    /\ reduce_futures' = [reduce_futures EXCEPT ![r] = [i \in DOMAIN shuffled[r] |-> NewFuture]]
    /\ reduce_next' = [reduce_next EXCEPT ![r] = 1]
    /\ reduced_values' = [reduced_values EXCEPT ![r] = <<>>]
    /\ pool' = [pool EXCEPT ![r].reduce = "open"]
    /\ pc' = [pc EXCEPT ![r] = "reduce"]
    /\ UNCHANGED <<text, search_words, words, map_futures, map_next, mapped_values,
                   shuffled, shuf_i, result, error, previous>>
    /\ UNCHANGED otherVars

ReduceWorkerRun(r, i) ==
    /\ pool[r].reduce = "open"
    /\ i \in DOMAIN reduce_futures[r]
    /\ CanRun(reduce_futures[r], i)
    /\ reduce_futures' = [reduce_futures EXCEPT ![r][i].state = "running"]
    /\ UNCHANGED <<pc, text, search_words, words, map_futures, map_next, mapped_values,
                   shuffled, shuf_i, reduce_next, reduced_values, pool, result, error,
                   previous>>
    /\ UNCHANGED otherVars

\* The workers add into one accumulator they share and return its value:
\* a work item's sum includes the sums of the items that finished before it.
ReduceWorkerFinishShared(r, i, ok) ==
    /\ i \in DOMAIN reduce_futures[r]
    /\ reduce_futures[r][i].state = "running"
    /\ reduce_futures' = [reduce_futures EXCEPT ![r][i] =
                             IF ok THEN [state |-> "done",
                                         result |-> <<shuffled[r][i][1],
                                                      SumSeq(shuffled[r][i][2]) +
                                                      SumSeq([j \in DOMAIN reduce_futures[r] |->
                                                                 reduce_futures[r][j].result[2]])>>]
                                   ELSE [state |-> "failed", result |-> NoResult]]
    /\ UNCHANGED <<pc, text, search_words, words, map_futures, map_next, mapped_values,
                   shuffled, shuf_i, reduce_next, reduced_values, pool, result, error,
                   previous>>
    /\ UNCHANGED otherVars

\* A worker of the reducer pool finishes work item i: reduce_function of the
\* i-th grouped entry is stored in the future, or the error the execution
\* surfaced.
ReduceWorkerFinish(r, i, ok) ==
    /\ i \in DOMAIN reduce_futures[r]
    /\ reduce_futures[r][i].state = "running"
    /\ reduce_futures' = [reduce_futures EXCEPT ![r][i] =
                             IF ok THEN [state |-> "done",
                                         result |-> reduce_function(shuffled[r][i])]
                                   ELSE [state |-> "failed", result |-> NoResult]]
    /\ UNCHANGED <<pc, text, search_words, words, map_futures, map_next, mapped_values,
                   shuffled, shuf_i, reduce_next, reduced_values, pool, result, error,
                   previous>>
    /\ UNCHANGED otherVars

\* The result of a failed work item skipped (except: pass) instead of raised.
ReduceCollectSwallow(r) ==
    /\ pc[r] = "reduce"
    /\ error[r] = NoError
    /\ reduce_next[r] \in DOMAIN reduce_futures[r]
    /\ FutureResolved(reduce_futures[r][reduce_next[r]])
    /\ reduced_values' = [reduced_values EXCEPT ![r] =
                             IF reduce_futures[r][reduce_next[r]].state = "done"
                             THEN Append(@, reduce_futures[r][reduce_next[r]].result)
                             ELSE @]
    /\ reduce_next' = [reduce_next EXCEPT ![r] = @ + 1]
    /\ UNCHANGED <<pc, text, search_words, words, map_futures, map_next, mapped_values,
                   shuffled, shuf_i, reduce_futures, pool, result, error, previous>>
    /\ UNCHANGED otherVars

\* list(executor.map(reduce_function, shuffled_values)) takes the next result.
ReduceCollect(r) ==
    /\ pc[r] = "reduce"
    /\ error[r] = NoError
    /\ reduce_next[r] \in DOMAIN reduce_futures[r]
    /\ FutureResolved(reduce_futures[r][reduce_next[r]])
    /\ IF reduce_futures[r][reduce_next[r]].state = "done"
       THEN /\ reduced_values' = [reduced_values EXCEPT ![r] =
                                     Append(@, reduce_futures[r][reduce_next[r]].result)]
            /\ reduce_next' = [reduce_next EXCEPT ![r] = @ + 1]
            /\ UNCHANGED <<reduce_futures, error>>
       ELSE /\ error' = [error EXCEPT ![r] = <<"reduce", reduce_next[r]>>]
            /\ reduce_futures' = [reduce_futures EXCEPT ![r] = CancelPending(@)]
            /\ UNCHANGED <<reduced_values, reduce_next>>
    /\ UNCHANGED <<pc, text, search_words, words, map_futures, map_next, mapped_values,
                   shuffled, shuf_i, pool, result, previous>>
    /\ UNCHANGED otherVars

\* End of the second with block, then return dict(reduced_values) (line 126)
\* or the exception leaves map_reduce.
ReduceExit(r) ==
    /\ pc[r] = "reduce"
    /\ error[r] # NoError \/ reduce_next[r] > Len(reduce_futures[r])
    /\ PoolJoined(reduce_futures[r])
    /\ pool' = [pool EXCEPT ![r].reduce = "shutdown"]
    /\ pc' = [pc EXCEPT ![r] = IF error[r] # NoError THEN "raised" ELSE "returned"]
    /\ result' = [result EXCEPT ![r] =
                     IF error[r] # NoError THEN EmptyDict ELSE DictOf(reduced_values[r])]
    /\ UNCHANGED <<text, search_words, words, map_futures, map_next, mapped_values,
                   shuffled, shuf_i, reduce_futures, reduce_next, reduced_values, error,
                   previous>>
    /\ UNCHANGED otherVars

\* Every step of run r after its call.
RunStep(r) ==
    \/ \E i \in 1..Len(map_futures[r]) : MapWorkerRun(r, i)
    \/ \E i \in 1..Len(map_futures[r]), ok \in BOOLEAN : MapWorkerFinish(r, i, ok)
    \/ MapCollect(r)
    \/ MapExit(r)
    \/ ShuffleStep(r)
    \/ ReduceSubmit(r)
    \/ \E i \in 1..Len(reduce_futures[r]) : ReduceWorkerRun(r, i)
    \/ \E i \in 1..Len(reduce_futures[r]), ok \in BOOLEAN : ReduceWorkerFinish(r, i, ok)
    \/ ReduceCollect(r)
    \/ ReduceExit(r)

\* One thread calls map_reduce, and calls it again when it has ended.
Next ==
    \/ pc[MainRun] = "idle" /\ \E t \in Texts, sw \in Vocabularies : Call(MainRun, t, sw)
    \/ Recall(MainRun)
    \/ RunStep(MainRun)

Spec == Init /\ [][Next]_vars

\* The operating system schedules every thread that can run: a run that can
\* take a step (of its coordinating thread or of a pool worker) takes one.
SpecFair == Init /\ [][Next]_vars /\ WF_vars(RunStep(MainRun))

(* --------------------------- the file sorter --------------------------- *)

\* The records of the logger.
ReadError == <<"error", "read_folder", Absent>>
ProcessError == <<"error", "process_files", Absent>>
Found == <<"info", "found", Absent>>
Completed == <<"info", "completed", Absent>>
Copied(file) == <<"info", "copy_file", file>>
CopyError(file) == <<"error", "copy_file", file>>

\* A copy_file coroutine that has ended, by its last statement or in its
\* except clause.
Finished == {"copied", "failed"}

\* files = await read_folder(source_path) and the list of coroutines built
\* from it; an OSError of the scan is logged by read_folder, logged again by
\* process_files and raised.
ReadFolder(found, ok) ==
    /\ sort_pc = "start"
    /\ IF ok
       THEN /\ files' = found
            /\ tasks' = [f \in SourceFiles |-> IF f \in found THEN "pending" ELSE "none"]
            /\ log' = log \cup {Found}
            /\ sort_pc' = "gather"
       ELSE /\ log' = log \cup {ReadError, ProcessError}
            /\ sort_pc' = "raised"
            /\ UNCHANGED <<files, tasks>>
    /\ UNCHANGED <<target, dirs, mrVars, appVars>>

\* copy_file up to its await: the extension directory is made and the copy
\* handed to a thread; an exception of mkdir is logged by the except clause.
TaskStart(file, ok) ==
    /\ sort_pc = "gather"
    /\ tasks[file] = "pending"
    /\ IF ok
       THEN /\ dirs' = dirs \cup {extension(file)}
            /\ tasks' = [tasks EXCEPT ![file] = "copying"]
            /\ UNCHANGED log
       ELSE /\ tasks' = [tasks EXCEPT ![file] = "failed"]
            /\ log' = log \cup {CopyError(file)}
            /\ UNCHANGED dirs
    /\ UNCHANGED <<sort_pc, files, target, mrVars, appVars>>

\* shutil.copy2(file, target_file) in its thread: the target path holds the
\* content of the file afterwards, whatever it held; a copy that fails (the
\* source cannot be opened) writes nothing.
CopyThread(file, ok) ==
    /\ tasks[file] = "copying"
    /\ IF ok
       THEN /\ target' = [target EXCEPT ![target_file(file)] = file]
            /\ tasks' = [tasks EXCEPT ![file] = "thread_done"]
       ELSE /\ tasks' = [tasks EXCEPT ![file] = "thread_failed"]
            /\ UNCHANGED target
    /\ UNCHANGED <<sort_pc, files, dirs, log, mrVars, appVars>>

\* copy_file with no try statement: the exception of the copy leaves the
\* task, gather hands it to process_files, which logs it and raises.
TaskResumeUncaught(file) ==
    /\ sort_pc = "gather"
    /\ tasks[file] \in {"thread_done", "thread_failed"}
    /\ IF tasks[file] = "thread_done"
       THEN /\ tasks' = [tasks EXCEPT ![file] = "copied"]
            /\ log' = log \cup {Copied(file)}
            /\ UNCHANGED sort_pc
       ELSE /\ tasks' = [tasks EXCEPT ![file] = "failed"]
            /\ log' = log \cup {ProcessError}
            /\ sort_pc' = "raised"
    /\ UNCHANGED <<files, target, dirs, mrVars, appVars>>

\* copy_file after its await: the copy is logged, or its exception is caught
\* and logged.
TaskResume(file) ==
    /\ sort_pc = "gather"
    /\ tasks[file] \in {"thread_done", "thread_failed"}
    /\ IF tasks[file] = "thread_done"
       THEN /\ tasks' = [tasks EXCEPT ![file] = "copied"]
            /\ log' = log \cup {Copied(file)}
       ELSE /\ tasks' = [tasks EXCEPT ![file] = "failed"]
            /\ log' = log \cup {CopyError(file)}
    /\ UNCHANGED <<sort_pc, files, target, dirs, mrVars, appVars>>

\* await asyncio.gather(*tasks) returns once every task has ended; then
\* process_files logs the completion.
GatherDone ==
    /\ sort_pc = "gather"
    /\ \A f \in files : tasks[f] \in Finished
    /\ log' = log \cup {Completed}
    /\ sort_pc' = "returned"
    /\ UNCHANGED <<files, tasks, target, dirs, mrVars, appVars>>

\* One run of process_files.
NextSort ==
    \/ sort_pc = "start" /\ \E found \in SUBSET SourceFiles, ok \in BOOLEAN :
           Cardinality(found) <= MaxFiles /\ ReadFolder(found, ok)
    \/ \E f \in SourceFiles, ok \in BOOLEAN : TaskStart(f, ok)
    \/ \E f \in SourceFiles, ok \in BOOLEAN : CopyThread(f, ok)
    \/ \E f \in SourceFiles : TaskResume(f)
    \/ GatherDone

SpecSort == Init /\ [][NextSort]_vars

(* --------------------------- the main block --------------------------- *)

\* visualize_top_words(word_occurrences, 20) in the main block.
NumTopWords == 20

\* How requests.get(url, timeout=10) and raise_for_status() can end.
Responses == {"ok", "timeout", "request_error"}

\* word_frequencies.items(): the keys in the order of their first insertion,
\* each with the value the dict holds.
ItemsOf(pairs) ==
    LET firsts == SelectSeq([i \in DOMAIN pairs |-> i],
                            LAMBDA i : \A j \in 1..(i - 1) : pairs[j][1] # pairs[i][1])
    IN [n \in DOMAIN firsts |-> <<pairs[firsts[n]][1], DictOf(pairs)[pairs[firsts[n]][1]]>>]

\* One insertion of a stable sort by count, descending: the item goes behind
\* the items whose count is not lower.
InsertByCount(s, x) ==
    LET k == Cardinality({i \in DOMAIN s : s[i][2] >= x[2]})
    IN SubSeq(s, 1, k) \o <<x>> \o SubSeq(s, k + 1, Len(s))

RECURSIVE SortFrom(_, _, _)
SortFrom(items, i, s) ==
    IF i > Len(items) THEN s ELSE SortFrom(items, i + 1, InsertByCount(s, items[i]))

\* sorted(word_frequencies.items(), key=lambda x: x[1], reverse=True)
sorted_frequencies(items) == SortFrom(items, 1, <<>>)

\* sequence[:n]
Slice(s, n) == SubSeq(s, 1, IF n < Len(s) THEN n ELSE Len(s))

\* sequence[::-1]
Reversed(s) == [i \in DOMAIN s |-> s[Len(s) + 1 - i]]

\* The bars of plt.barh(top_words, top_frequencies[::-1]): the i-th word with
\* the i-th width.
visualize_top_words(items, num_top_words) ==
    LET top == Slice(sorted_frequencies(items), num_top_words)
        top_words == [i \in DOMAIN top |-> top[i][1]]
        top_frequencies == [i \in DOMAIN top |-> top[i][2]]
    IN [i \in DOMAIN top |-> <<top_words[i], Reversed(top_frequencies)[i]>>]

\* get_text with an except clause for requests.Timeout alone: another
\* request error leaves get_text as an exception.
GetTextUncaught(outcome, t) ==
    /\ main_pc = "start"
    /\ response' = outcome
    /\ IF outcome = "request_error"
       THEN /\ main_pc' = "crashed"
            /\ UNCHANGED <<some_text, console>>
       ELSE /\ main_pc' = "fetched"
            /\ some_text' = IF outcome = "ok" THEN TextValue(t) ELSE NoText
            /\ console' = IF outcome = "ok" THEN console ELSE Append(console, "timeout")
    /\ UNCHANGED <<mrVars, chart>>
    /\ UNCHANGED sortVars

\* some_text = get_text(URL): the text of the response, or a printed message
\* and None after a timeout or another request error.
GetText(outcome, t) ==
    /\ main_pc = "start"
    /\ response' = outcome
    /\ some_text' = IF outcome = "ok" THEN TextValue(t) ELSE NoText
    /\ console' = IF outcome = "ok" THEN console
                  ELSE IF outcome = "timeout" THEN Append(console, "timeout")
                  ELSE Append(console, "fetch_error")
    /\ main_pc' = "fetched"
    /\ UNCHANGED <<mrVars, chart>>
    /\ UNCHANGED sortVars

\* if some_text: ... else: print("Error: Unable to fetch the input text.");
\* None and the empty string are falsy.
MainBranch ==
    /\ main_pc = "fetched"
    /\ IF ~some_text.is_none /\ some_text.value # <<>>
       THEN main_pc' = "call" /\ UNCHANGED console
       ELSE main_pc' = "done" /\ console' = Append(console, "unable")
    /\ UNCHANGED <<mrVars, response, some_text, chart>>
    /\ UNCHANGED sortVars

\* word_occurrences = map_reduce(some_text)
MainCall ==
    /\ main_pc = "call"
    /\ Call(MainRun, some_text.value, NoneValue)

\* visualize_top_words(word_occurrences, 20) once map_reduce has returned.
Visualize ==
    /\ main_pc = "call"
    /\ pc[MainRun] = "returned"
    /\ chart' = [shown |-> TRUE,
                 bars |-> visualize_top_words(ItemsOf(reduced_values[MainRun]), NumTopWords)]
    /\ main_pc' = "done"
    /\ UNCHANGED <<mrVars, response, some_text, console>>
    /\ UNCHANGED sortVars

\* An exception of map_reduce leaves the main block.
MainRaise ==
    /\ main_pc = "call"
    /\ pc[MainRun] = "raised"
    /\ main_pc' = "crashed"
    /\ UNCHANGED <<mrVars, response, some_text, console, chart>>
    /\ UNCHANGED sortVars

\* The script: fetch, branch, map_reduce, visualize.
NextMain ==
    \/ main_pc = "start" /\ \E outcome \in Responses, t \in Texts : GetText(outcome, t)
    \/ MainBranch
    \/ MainCall
    \/ main_pc = "call" /\ RunStep(MainRun)
    \/ Visualize
    \/ MainRaise

SpecMain == Init /\ [][NextMain]_vars

\* Two threads call map_reduce concurrently.
NextConc ==
    \/ \E r \in Runs :
          pc[r] = "idle" /\ \E t \in ConcTexts, sw \in ConcVocabularies : Call(r, t, sw)
    \/ \E r \in Runs : RunStep(r)

SpecConc == Init /\ [][NextConc]_vars

(* ------------------------------- claims -------------------------------- *)

Returned(r) == pc[r] = "returned"

Raised(r) == pc[r] = "raised"

Keys(d) == DOMAIN d

RECURSIVE SumOver(_, _)
SumOver(d, S) ==
    IF S = {} THEN 0
    ELSE LET k == CHOOSE x \in S : TRUE IN d[k] + SumOver(d, S \ {k})

SumValues(d) == SumOver(d, Keys(d))

States(fs) == {fs[i].state : i \in DOMAIN fs}

AllDone(fs) == \A i \in DOMAIN fs : fs[i].state = "done"

Failed(fs) == {i \in DOMAIN fs : fs[i].state = "failed"}

Permute(s, p) == [i \in DOMAIN s |-> s[p[i]]]

\* The table of the sequential composition of the stages on one call's
\* arguments, no pool involved.
AloneTable(t, sw) ==
    DictOf(ReduceAll(shuffle_function(MapAll(Tokenize(t, sw)))))

\* C1: when map_reduce has returned, the values of the returned table sum to
\* the number of words that survived punctuation stripping, splitting and
\* the search_words filter.
CountConservation ==
    \A r \in Runs : Returned(r) => SumValues(result[r]) = Len(words[r])

\* A call with a filter that removed a word and kept a repeated one returned.
CountConservationWitness ==
    /\ Returned(MainRun)
    /\ Truthy(search_words[MainRun])
    /\ Len(words[MainRun]) = 2
    /\ Len(Tokens(text[MainRun])) = 3
    /\ Cardinality(Keys(result[MainRun])) = 1

\* C2: when map_reduce has returned, the keys of the table are exactly the
\* distinct words that entered the mapper, and every value is at least 1.
KeyCompleteness ==
    \A r \in Runs :
        Returned(r) =>
            /\ Keys(result[r]) = Range(words[r])
            /\ \A k \in Keys(result[r]) : result[r][k] >= 1

\* A call on three words, two of them distinct, returned.
KeyCompletenessWitness ==
    /\ Returned(MainRun)
    /\ Len(words[MainRun]) = 3
    /\ Cardinality(Keys(result[MainRun])) = 2

\* C3: when map_reduce was given a vocabulary (any list, the empty one
\* included) and has returned, the keys of the table are exactly the words of
\* the text that are in the vocabulary.
VocabularyFilterCorrectness ==
    \A r \in Runs :
        (Returned(r) /\ ~search_words[r].is_none) =>
            Keys(result[r]) = Range(Tokens(text[r])) \cap Range(search_words[r].items)

\* C4: the shuffle consumes no mapped pair before every mapper work item has
\* completed and been collected; no reducer work item exists before the
\* shuffle has consumed every mapped pair; the table is not returned before
\* every reducer work item has completed.
BarrierOrdering ==
    \A r \in Runs :
        /\ (pc[r] \in {"shuffle", "reduce", "returned"} \/ shuf_i[r] > 0) =>
              /\ AllDone(map_futures[r])
              /\ Len(map_futures[r]) = Len(words[r])
              /\ Len(mapped_values[r]) = Len(words[r])
        /\ (reduce_futures[r] # <<>> \/ pc[r] \in {"reduce", "returned"}) =>
              /\ shuf_i[r] = Len(mapped_values[r])
              /\ Len(reduce_futures[r]) = Len(shuffled[r])
        /\ Returned(r) =>
              /\ AllDone(reduce_futures[r])
              /\ Len(reduced_values[r]) = Len(reduce_futures[r])

\* The shuffle is under way after three mapper work items.
BarrierOrderingWitness ==
    /\ pc[MainRun] = "shuffle"
    /\ shuf_i[MainRun] = 2
    /\ Len(mapped_values[MainRun]) = 3

\* C5: a failed work item of the mapper or of the reducer makes the call
\* fail: the call never returns a table, the stages after the failed one do
\* not run, and the exception raised is the one of a failed work item of the
\* stage.
AllOrNothing ==
    \A r \in Runs :
        /\ Failed(map_futures[r]) # {} =>
              /\ pc[r] \in {"map", "raised"}
              /\ shuf_i[r] = 0 /\ shuffled[r] = <<>>
              /\ reduce_futures[r] = <<>> /\ pool[r].reduce = "none"
        /\ Failed(reduce_futures[r]) # {} => pc[r] \in {"reduce", "raised"}
        /\ Raised(r) =>
              /\ result[r] = EmptyDict
              /\ \/ error[r][1] = "map" /\ error[r][2] \in Failed(map_futures[r])
                 \/ error[r][1] = "reduce" /\ error[r][2] \in Failed(reduce_futures[r])
        /\ Returned(r) =>
              /\ error[r] = NoError
              /\ Failed(map_futures[r]) = {} /\ Failed(reduce_futures[r]) = {}

\* A call raised the error of its second reducer work item after the first
\* one's result had been collected.
AllOrNothingWitness ==
    /\ Raised(MainRun)
    /\ error[MainRun] = <<"reduce", 2>>
    /\ Len(reduced_values[MainRun]) = 1

\* C6: the returned table is the one every permutation of the mapped pairs
\* fed to the shuffle, and every permutation of the grouped entries fed to
\* the reducer, yields; it is reached under every interleaving of the work
\* items.
OrderIndependence ==
    \A r \in Runs :
        Returned(r) =>
            \A p \in Permutations(DOMAIN mapped_values[r]) :
                LET grouped == shuffle_function(Permute(mapped_values[r], p))
                IN \A q \in Permutations(DOMAIN grouped) :
                       DictOf(ReduceAll(Permute(grouped, q))) = result[r]

\* A call on three words, the first and the last the same, returned.
OrderIndependenceWitness ==
    /\ Returned(MainRun)
    /\ Len(words[MainRun]) = 3
    /\ words[MainRun][1] = words[MainRun][3]
    /\ words[MainRun][1] # words[MainRun][2]

\* C7: a pool is open before a work item of it runs, and is shut down with no
\* worker of it running when its stage has ended, whether the stage ended
\* well or by a failed work item; no pool is open once map_reduce has
\* returned or raised.
ScopedPoolRelease ==
    \A r \in Runs :
        /\ States(map_futures[r]) \cap {"pending", "running"} # {} => pool[r].map = "open"
        /\ States(reduce_futures[r]) \cap {"pending", "running"} # {} =>
              pool[r].reduce = "open"
        /\ pc[r] = "map" => pool[r].map = "open" /\ pool[r].reduce = "none"
        /\ pc[r] = "shuffle" => pool[r].map = "shutdown" /\ pool[r].reduce = "none"
        /\ pc[r] = "reduce" => pool[r].map = "shutdown" /\ pool[r].reduce = "open"
        /\ Returned(r) => pool[r].map = "shutdown" /\ pool[r].reduce = "shutdown"
        /\ Raised(r) => pool[r].map = "shutdown" /\ pool[r].reduce \in {"none", "shutdown"}
        /\ pc[r] = "idle" => pool[r].map = "none" /\ pool[r].reduce = "none"

\* A call raised from the mapper stage: a work item had failed, one had been
\* cancelled in the queue and one had run to its end.
ScopedPoolReleaseWitness ==
    /\ Raised(MainRun)
    /\ error[MainRun] = <<"map", 1>>
    /\ States(map_futures[MainRun]) = {"failed", "done", "cancelled"}

\* C8: with two calls running concurrently, the intermediate collections of
\* each call hold only what its own words produce, and each call returns the
\* table the sequential composition of the stages gives on its arguments.
ConcurrentIsolation ==
    \A r \in Runs :
        /\ mapped_values[r] =
              SubSeq(MapAll(words[r]), 1, Len(mapped_values[r]))
        /\ pc[r] \in {"shuffle", "reduce", "returned"} =>
              shuffled[r] = shuffle_function(SubSeq(mapped_values[r], 1, shuf_i[r]))
        /\ reduced_values[r] =
              SubSeq(ReduceAll(shuffled[r]), 1, Len(reduced_values[r]))
        /\ Returned(r) => result[r] = AloneTable(text[r], search_words[r])

\* One call has returned its table while the other, on other words, is in
\* the middle of its shuffle.
ConcurrentIsolationWitness ==
    /\ \E r \in Runs, q \in Runs :
          /\ Returned(r) /\ result[r] # EmptyDict
          /\ pc[q] = "shuffle" /\ shuf_i[q] = 1 /\ Len(mapped_values[q]) = 2
          /\ words[r] # words[q]

\* C9: a call that returns after an earlier call on the same arguments
\* returned gives the same table as the earlier call.
IdempotentRerun ==
    \A r \in Runs :
        (Returned(r) /\ previous[r].returned) => result[r] = previous[r].table

\* The second call on three words returned.
IdempotentRerunWitness ==
    /\ Returned(MainRun)
    /\ previous[MainRun].returned
    /\ Len(words[MainRun]) = 3

\* C10: a call whose word sequence is empty has no work item in either
\* stage, never raises, can always take its next step until it has returned,
\* and returns the empty table after both pools were created and shut down.
EmptyResultSuccess ==
    \A r \in Runs :
        (pc[r] # "idle" /\ words[r] = <<>>) =>
            /\ ~Raised(r) /\ error[r] = NoError
            /\ map_futures[r] = <<>> /\ reduce_futures[r] = <<>>
            /\ ~Returned(r) => ENABLED RunStep(r)
            /\ Returned(r) =>
                  /\ result[r] = EmptyDict
                  /\ pool[r].map = "shutdown" /\ pool[r].reduce = "shutdown"

\* A call whose every word was removed by the filter returned.
EmptyResultSuccessWitness ==
    /\ Returned(MainRun)
    /\ words[MainRun] = <<>>
    /\ Tokens(text[MainRun]) # <<>>
    /\ Truthy(search_words[MainRun])

Count(s, x) == Cardinality({i \in DOMAIN s : s[i] = x})

\* C11: the mapper's output holds exactly one pair (word, 1) per occurrence
\* of a word in the input: while results are collected no pair occurs more
\* often than its word, every stored result is the pair of its own word, and
\* once the stage has ended every pair occurs exactly as often as its word.
MapperExactlyOnce ==
    \A r \in Runs :
        /\ \A i \in DOMAIN map_futures[r] :
              map_futures[r][i].state = "done" =>
                  map_futures[r][i].result = <<words[r][i], 1>>
        /\ \A i \in DOMAIN mapped_values[r] :
              /\ mapped_values[r][i][2] = 1
              /\ Count(mapped_values[r], mapped_values[r][i]) <=
                     Count(words[r], mapped_values[r][i][1])
        /\ pc[r] \in {"shuffle", "reduce", "returned"} =>
              \A w \in Range(words[r]) :
                  Count(mapped_values[r], <<w, 1>>) = Count(words[r], w)

\* The mapper stage of a call on three words, one of them twice, has ended.
MapperExactlyOnceWitness ==
    /\ pc[MainRun] = "shuffle"
    /\ Len(words[MainRun]) = 3
    /\ Cardinality(Range(words[MainRun])) = 2


\* C12: every grouped entry is reduced exactly once and on its own: a
\* finished reducer work item holds its entry's key with the sum of its
\* entry's counts, the collected results are those of the entries in order,
\* and the returned table has exactly one entry per grouped key, whose value
\* is the sum of that key's counts.
ReducerExactlyOnce ==
    \A r \in Runs :
        /\ \A i \in DOMAIN reduce_futures[r] :
              reduce_futures[r][i].state = "done" =>
                  reduce_futures[r][i].result = <<shuffled[r][i][1], SumSeq(shuffled[r][i][2])>>
        /\ \A i \in DOMAIN reduced_values[r] :
              reduced_values[r][i] = <<shuffled[r][i][1], SumSeq(shuffled[r][i][2])>>
        /\ Returned(r) =>
              /\ Len(reduced_values[r]) = Len(shuffled[r])
              /\ Cardinality(Keys(result[r])) = Len(shuffled[r])
              /\ \A i \in DOMAIN shuffled[r] :
                    /\ shuffled[r][i][1] \in Keys(result[r])
                    /\ result[r][shuffled[r][i][1]] = SumSeq(shuffled[r][i][2])

\* A call with two grouped entries, one of two counts, returned.
ReducerExactlyOnceWitness ==
    /\ Returned(MainRun)
    /\ Len(shuffled[MainRun]) = 2
    /\ \E i \in DOMAIN shuffled[MainRun] : Len(shuffled[MainRun][i][2]) = 2


\* The pairs the shuffle of run r has consumed.
Consumed(r) == SubSeq(mapped_values[r], 1, shuf_i[r])

\* The grouped entries of run r partition the pairs the shuffle consumed.
Partitioned(r) ==
    /\ \A i, j \in DOMAIN shuffled[r] : shuffled[r][i][1] = shuffled[r][j][1] => i = j
    /\ \A k \in DOMAIN Consumed(r) :
          \E i \in DOMAIN shuffled[r] : shuffled[r][i][1] = Consumed(r)[k][1]
    /\ \A i \in DOMAIN shuffled[r] :
          Len(shuffled[r][i][2]) =
              Cardinality({k \in DOMAIN Consumed(r) : Consumed(r)[k][1] = shuffled[r][i][1]})

\* A step that changes the grouping structure of run r is a step of the
\* shuffle loop of r, taken while no worker of r runs, or the start of a new
\* call.
OnlyShuffleMutates(r) ==
    shuffled'[r] # shuffled[r] =>
        \/ /\ pc[r] = "shuffle" /\ pc'[r] = "shuffle"
           /\ shuf_i'[r] = shuf_i[r] + 1
           /\ Running(map_futures[r]) = {} /\ reduce_futures[r] = <<>>
        \/ pc[r] \in {"idle", "returned", "raised"} /\ pc'[r] = "map"

\* C13: during and after shuffle_function the grouped entries have pairwise
\* distinct keys, every consumed pair's key has its entry, and each entry's
\* list is as long as the number of consumed pairs with its key (all mapped
\* pairs once the reducer runs); the grouping structure is changed only by
\* the shuffle loop of its own call, never while reducer workers exist.
ShufflePartition ==
    /\ [](\A r \in Runs :
             /\ pc[r] \in {"shuffle", "reduce", "returned"} => Partitioned(r)
             /\ pc[r] \in {"reduce", "returned"} => shuf_i[r] = Len(mapped_values[r]))
    /\ [][\A r \in Runs : OnlyShuffleMutates(r)]_vars

\* A reducer worker runs on a grouping of two keys, one with two counts.
ShufflePartitionWitness ==
    /\ pc[MainRun] = "reduce"
    /\ Running(reduce_futures[MainRun]) # {}
    /\ Len(shuffled[MainRun]) = 2
    /\ \E i \in DOMAIN shuffled[MainRun] : Len(shuffled[MainRun][i][2]) = 2


\* The whitespace-separated chunks of a text, each without its punctuation,
\* the ones left empty dropped.
StrippedChunks(t) ==
    SelectSeq([i \in DOMAIN split(t) |-> remove_punctuation(split(t)[i])],
              LAMBDA w : w # <<>>)

\* C15: every word that enters the mapper is non-empty and holds neither a
\* punctuation character nor whitespace; the words are the chunks of the
\* text without their punctuation, those left empty dropped, then filtered.
NoEmptyToken ==
    \A r \in Runs :
        /\ \A i \in DOMAIN words[r] :
              /\ words[r][i] # <<>>
              /\ Range(words[r][i]) \cap (Punctuation \cup Whitespace) = {}
        /\ Len(map_futures[r]) = Len(words[r])
        /\ pc[r] # "idle" =>
              words[r] = FilterWords(StrippedChunks(text[r]), search_words[r])

\* A call on a text with a chunk of punctuation alone between two words.
NoEmptyTokenWitness ==
    /\ pc[MainRun] = "map"
    /\ Len(words[MainRun]) = 2
    /\ \E i \in DOMAIN split(text[MainRun]) :
          Range(split(text[MainRun])[i]) \subseteq Punctuation


\* C14: under fair scheduling a call that has started returns or raises; it
\* raises only when a work item failed, so with no failed work item it
\* returns, every submitted work item having run to its end; until then the
\* call can always take a step (the waits on the two pools never block for
\* ever).
Termination ==
    /\ [](\A r \in Runs :
             /\ pc[r] \in {"map", "shuffle", "reduce"} => ENABLED RunStep(r)
             /\ Raised(r) => Failed(map_futures[r]) \cup Failed(reduce_futures[r]) # {}
             /\ Returned(r) => AllDone(map_futures[r]) /\ AllDone(reduce_futures[r]))
    /\ (pc[MainRun] = "map") ~> (Returned(MainRun) \/ Raised(MainRun))

\* A call on three words, more than the pool has workers, returned.
TerminationWitness ==
    /\ Returned(MainRun)
    /\ Len(map_futures[MainRun]) > MaxWorkers
    /\ AllDone(map_futures[MainRun])


\* C16: a fetch that failed makes get_text return None without raising, and
\* then map_reduce is never called and nothing is plotted; map_reduce is
\* called only on the text a successful fetch returned.
FetchFailureSkipsPipeline ==
    /\ response \in {"timeout", "request_error"} =>
          /\ main_pc \in {"fetched", "done"}
          /\ some_text = NoText
          /\ pc[MainRun] = "idle"
          /\ ~chart.shown
          /\ console # <<>>
    /\ pc[MainRun] # "idle" =>
          /\ response = "ok"
          /\ some_text = TextValue(text[MainRun])
          /\ search_words[MainRun] = NoneValue
    /\ chart.shown => response = "ok" /\ pc[MainRun] = "returned"

\* The script has ended after a request error.
FetchFailureSkipsPipelineWitness ==
    /\ main_pc = "done"
    /\ response = "request_error"
    /\ console = <<"fetch_error", "unable">>

\* C17: visualize_top_words plots the entries of the table with the highest
\* counts, at most num_top_words of them, in descending order of count, each
\* word with its own count.
TopWordsOwnCounts ==
    chart.shown =>
        /\ Len(chart.bars) =
              (IF NumTopWords < Cardinality(Keys(result[MainRun]))
               THEN NumTopWords ELSE Cardinality(Keys(result[MainRun])))
        /\ \A i \in DOMAIN chart.bars :
              /\ chart.bars[i][1] \in Keys(result[MainRun])
              /\ chart.bars[i][2] = result[MainRun][chart.bars[i][1]]
        /\ \A i, j \in DOMAIN chart.bars :
              i < j => result[MainRun][chart.bars[i][1]] >= result[MainRun][chart.bars[j][1]]


\* C18: the copy_file tasks of one run never write the same target path, so
\* that once process_files has returned every file that was copied is found,
\* with its own content, at its target path, whatever the interleaving was.
IndependentCopies ==
    /\ \A f, g \in files : f # g => target_file(f) # target_file(g)
    /\ sort_pc = "returned" =>
          \A f \in files : tasks[f] = "copied" => target[target_file(f)] = f

\* C19: a failure of one copy is caught and logged by its own task and stops
\* no other task; the completion is logged only when every task has ended;
\* process_files raises only when read_folder failed.
FailureIsolation ==
    /\ \A f \in files : tasks[f] = "failed" => CopyError(f) \in log
    /\ \A f \in files :
          /\ sort_pc = "gather" /\ tasks[f] = "pending" => ENABLED TaskStart(f, TRUE)
          /\ tasks[f] = "copying" => ENABLED CopyThread(f, TRUE)
          /\ sort_pc = "gather" /\ tasks[f] \in {"thread_done", "thread_failed"} =>
                ENABLED TaskResume(f)
    /\ (\E f \in files : tasks[f] \notin Finished) => sort_pc = "gather"
    /\ Completed \in log <=> sort_pc = "returned"
    /\ sort_pc = "raised" <=> ReadError \in log
    /\ sort_pc = "raised" => files = {} /\ \A f \in SourceFiles : tasks[f] = "none"
    /\ ProcessError \in log => sort_pc = "raised"

\* process_files has returned after one copy failed and another, started
\* later, succeeded.
FailureIsolationWitness ==
    /\ sort_pc = "returned"
    /\ \E f, g \in files :
          /\ tasks[f] = "failed"
          /\ tasks[g] = "copied"
          /\ target[target_file(g)] = g
          /\ target_file(f) # target_file(g)


====
